---- MODULE Spec2Model ----
(***************************************************************************)
(* The customer API of Project-Think41: the Flask application (src/app.py) *)
(* and the standard-library HTTP server (src/simple_api.py), both reading  *)
(* the users and orders tables that src/database_setup.py creates.         *)
(*                                                                         *)
(* Text (path segments, query values, names) is a sequence of one-letter   *)
(* strings.  A table is the sequence of its rows in the order in which the *)
(* engine visits them; SQLite leaves the order of rows with equal ORDER BY *)
(* keys undefined, and returns them in visiting order, so the visiting     *)
(* order is arbitrary but the same for every statement on an unchanged     *)
(* store.                                                                  *)
(***************************************************************************)
EXTENDS Integers, Sequences, FiniteSets, TLC

VARIABLES users, orders, request, response, pager, handlers, cursors, files

vars == <<users, orders, request, response, pager, handlers, cursors, files>>

(* ------------------------------ bounds -------------------------------- *)

MaxUsers == 3
MaxOrders == 3
MaxPage == 3

MaxPagerOrders == 11

MaxStatsUsers == 6

MaxStatsOrders == 8

(* --------------------------- Python built-ins -------------------------- *)

Max(a, b) == IF a >= b THEN a ELSE b

Min(a, b) == IF a <= b THEN a ELSE b

Digits == <<"0", "1", "2", "3", "4", "5", "6", "7", "8", "9">>

IsDigit(c) == \E i \in 1..10 : Digits[i] = c

DigitVal(c) == (CHOOSE i \in 1..10 : Digits[i] = c) - 1

RECURSIVE DigitsValue(_)
DigitsValue(ds) ==
    IF ds = <<>> THEN 0
    ELSE 10 * DigitsValue(SubSeq(ds, 1, Len(ds) - 1)) + DigitVal(ds[Len(ds)])

RECURSIVE LStrip(_)
LStrip(s) == IF s # <<>> /\ Head(s) = " " THEN LStrip(Tail(s)) ELSE s

RECURSIVE RStrip(_)
RStrip(s) ==
    IF s # <<>> /\ s[Len(s)] = " " THEN RStrip(SubSeq(s, 1, Len(s) - 1)) ELSE s

\* str.strip()
Strip(s) == RStrip(LStrip(s))

AllDigits(s) == s # <<>> /\ \A i \in 1..Len(s) : IsDigit(s[i])

\* int(text): ok = FALSE stands for ValueError
ParseInt(s) ==
    LET t == Strip(s)
        signed == t # <<>> /\ Head(t) \in {"-", "+"}
        body == IF signed THEN Tail(t) ELSE t
    IN  IF AllDigits(body)
        THEN [ok |-> TRUE,
              n |-> IF signed /\ Head(t) = "-" THEN 0 - DigitsValue(body)
                    ELSE DigitsValue(body)]
        ELSE [ok |-> FALSE, n |-> 0]

\* str(n), used to write the integers of a request
RECURSIVE Decimal(_)
Decimal(n) ==
    IF n < 0 THEN <<"-">> \o Decimal(0 - n)
    ELSE IF n < 10 THEN <<Digits[n + 1]>>
    ELSE Decimal(n \div 10) \o <<Digits[(n % 10) + 1]>>

\* the largest integer SQLite stores, 2^63 - 1, digit by digit
Int64Max == <<"9", "2", "2", "3", "3", "7", "2", "0", "3", "6",
              "8", "5", "4", "7", "7", "5", "8", "0", "7">>

RECURSIVE DigitsLeq(_, _)
DigitsLeq(a, b) ==
    IF a = <<>> THEN TRUE
    ELSE IF DigitVal(Head(a)) # DigitVal(Head(b))
         THEN DigitVal(Head(a)) < DigitVal(Head(b))
         ELSE DigitsLeq(Tail(a), Tail(b))

RECURSIVE DropZeros(_)
DropZeros(ds) ==
    IF Len(ds) > 1 /\ Head(ds) = "0" THEN DropZeros(Tail(ds)) ELSE ds

\* sqlite3 binds a Python int only when it fits 64 bits; otherwise
\* OverflowError
FitsInt64(ds) ==
    LET d == DropZeros(ds)
    IN  Len(d) < Len(Int64Max) \/ (Len(d) = Len(Int64Max) /\ DigitsLeq(d, Int64Max))

(* ------------------------------ the store ------------------------------ *)

\* users(id PRIMARY KEY, first_name, last_name, email, ..., country, ..., created_at)
UserRow(id, first_name, last_name, email, country, created_at) ==
    [id |-> id, first_name |-> first_name, last_name |-> last_name,
     email |-> email, country |-> country, created_at |-> created_at]

\* orders(order_id PRIMARY KEY, user_id, status, ..., created_at, ..., num_of_item)
OrderRow(order_id, user_id, status, num_of_item, created_at) ==
    [order_id |-> order_id, user_id |-> user_id, status |-> status,
     num_of_item |-> num_of_item, created_at |-> created_at]

\* SQL NULL in a text column
Null == "NULL"

Range(s) == {s[i] : i \in 1..Len(s)}

\* PRIMARY KEY: no two rows of a table share the key
UniqueKeys ==
    /\ \A i, j \in 1..Len(users) : users[i].id = users[j].id => i = j
    /\ \A i, j \in 1..Len(orders) : orders[i].order_id = orders[j].order_id => i = j

(* ------------------------------ SQL engine ----------------------------- *)

Lower(c) ==
    CASE c = "A" -> "a" [] c = "B" -> "b" [] c = "K" -> "k" [] c = "L" -> "l"
      [] c = "O" -> "o" [] c = "X" -> "x" [] OTHER -> c

\* text LIKE pattern: % is any run of characters, _ any one character,
\* letters compare without case
RECURSIVE Like(_, _)
Like(text, pattern) ==
    IF pattern = <<>> THEN text = <<>>
    ELSE IF Head(pattern) = "%"
         THEN Like(text, Tail(pattern)) \/ (text # <<>> /\ Like(Tail(text), pattern))
    ELSE IF text = <<>> THEN FALSE
    ELSE IF Head(pattern) = "_" THEN Like(Tail(text), Tail(pattern))
    ELSE Lower(Head(pattern)) = Lower(Head(text)) /\ Like(Tail(text), Tail(pattern))

\* ORDER BY key DESC over rows paired with their key: rows of equal key
\* stay in visiting order
RECURSIVE SortKeyedDesc(_)
SortKeyedDesc(keyed) ==
    IF keyed = <<>> THEN <<>>
    ELSE LET n == Len(keyed)
             last == keyed[n]
             sorted == SortKeyedDesc(SubSeq(keyed, 1, n - 1))
             k == Cardinality({i \in 1..(n - 1) : sorted[i].key >= last.key})
         IN  SubSeq(sorted, 1, k) \o <<last>> \o SubSeq(sorted, k + 1, n - 1)

OrderByDesc(rows, column) ==
    LET sorted == SortKeyedDesc([i \in 1..Len(rows) |-> [key |-> rows[i][column], row |-> rows[i]]])
    IN  [i \in 1..Len(rows) |-> sorted[i].row]

\* ORDER BY created_at DESC
OrderByCreatedAtDesc(rows) == OrderByDesc(rows, "created_at")

\* LIMIT limit OFFSET offset
LimitOffsetNoOffset(rows, limit, offset) == SubSeq(rows, 1, Min(Len(rows), limit))

LimitOffset(rows, limit, offset) ==
    SubSeq(rows, offset + 1, Min(Len(rows), offset + limit))

OrderCountAll(uid) == Len(orders)

\* COUNT(o.order_id) of the group of user uid in users LEFT JOIN orders
OrderCount(uid) == Cardinality({i \in 1..Len(orders) : orders[i].user_id = uid})

RECURSIVE SumItems(_)
SumItems(rows) ==
    IF rows = <<>> THEN 0 ELSE rows[1].num_of_item + SumItems(Tail(rows))

\* a nullable number: SUM and AVG of no rows are NULL
SqlNull == [null |-> TRUE, v |-> 0]

SqlInt(n) == [null |-> FALSE, v |-> n]

\* SUM(num_of_item)
SqlSum(rows) == IF rows = <<>> THEN SqlNull ELSE SqlInt(SumItems(rows))

\* AVG(num_of_item), in hundredths after round(..., 2): round() takes the
\* nearest hundredth and, of two equally near, the even one (with fewer than
\* 40 rows a mean halfway between two hundredths is a multiple of 1/8, which
\* the float holds exactly)
SqlAvg100(rows) ==
    IF rows = <<>> THEN SqlNull
    ELSE LET q == (100 * SumItems(rows)) \div Len(rows)
             r == (100 * SumItems(rows)) % Len(rows)
         IN  SqlInt(IF 2 * r < Len(rows) THEN q
                    ELSE IF 2 * r > Len(rows) THEN q + 1
                    ELSE IF q % 2 = 0 THEN q ELSE q + 1)

OrMinusOne(x) == IF x.null THEN 0 - 1 ELSE x.v

\* x or 0
OrZero(x) == IF x.null THEN 0 ELSE x.v

OrdersOf(uid) == SelectSeq(orders, LAMBDA o : o.user_id = uid)

CountStatusAnyCase(rows, status) ==
    Len(SelectSeq(rows, LAMBDA o : o.status = status
                                    \/ (status = "Complete" /\ o.status = "complete")))

CountStatus(rows, status) == Len(SelectSeq(rows, LAMBDA o : o.status = status))

(* ------------------------------- requests ------------------------------ *)

\* The request target "/api/<base>[/<id>[/<tail>]][?<query>]".  query maps
\* each key of the query string to its value as written, "+" included.
Target(base, id, tail, hasQuery, query) ==
    [base |-> base, id |-> id, tail |-> tail, hasQuery |-> hasQuery, query |-> query]

NoParams == <<>>

\* dict.get(key, default) on the text of a parameter
Get(params, key, default) == IF key \in DOMAIN params THEN params[key] ELSE default

\* int(params.get(key, default)): the default is already an integer
IntArg(params, key, default) ==
    IF key \in DOMAIN params THEN ParseInt(params[key]) ELSE [ok |-> TRUE, n |-> default]

\* A percent escape is one element of the text: "%20" is a space, "%25" a
\* percent sign.
PercentDecode(c) == CASE c = "%20" -> " " [] c = "%25" -> "%" [] OTHER -> c

\* urllib.parse.unquote: percent escapes are decoded, "+" is left alone
unquote(s) == [i \in 1..Len(s) |-> PercentDecode(s[i])]

\* Flask's request.args: "+" reads as a space, then percent escapes are decoded
PlusToSpace(s) == [i \in 1..Len(s) |-> IF s[i] = "+" THEN " " ELSE s[i]]

request_args(target) ==
    [k \in DOMAIN target.query |-> unquote(PlusToSpace(target.query[k]))]

parse_query_params(query) == [k \in DOMAIN query |-> unquote(query[k])]

(* ------------------------------ responses ------------------------------ *)

\* op: the view function or handler that answered; queries: how many
\* statements it has sent to the store
Resp(op, status, body, queries) ==
    [op |-> op, status |-> status, body |-> body, queries |-> queries]

ErrorBody(error, message) == [success |-> FALSE, error |-> error, message |-> message]

ValueErrorText == "invalid literal for int() with base 10"

OverflowErrorText == "Python int too large to convert to SQLite INTEGER"

None == <<"None">>

(* --------------------------- pagination module -------------------------- *)

\* page = max(1, int(...))
ClampLimitNoMax(n) == Max(1, n)

ClampPage(n) == Max(1, n)

\* limit = min(100, max(1, int(...)))
ClampLimit(n) == Min(100, Max(1, n))

\* offset = (page - 1) * limit
Offset(page, limit) == (page - 1) * limit

\* total_pages = (total_count + limit - 1) // limit
TotalPagesFloor(total_count, limit) == total_count \div limit

TotalPages(total_count, limit) == (total_count + limit - 1) \div limit

\* has_next computed as page <= total_pages
PaginationNextInclusive(page, limit, total_count) ==
    LET total_pages == TotalPages(total_count, limit)
    IN  [page |-> page, limit |-> limit, total |-> total_count,
         total_pages |-> total_pages,
         has_next |-> page <= total_pages,
         has_prev |-> page > 1]


Pagination(page, limit, total_count) ==
    LET total_pages == TotalPages(total_count, limit)
    IN  [page |-> page, limit |-> limit, total |-> total_count,
         total_pages |-> total_pages,
         has_next |-> page < total_pages,
         has_prev |-> page > 1]

(* ------------------------------- queries ------------------------------- *)

\* WHERE (u.first_name LIKE ? OR u.last_name LIKE ? OR u.email LIKE ?)
SearchMatches(u, search_param) ==
    \/ Like(u.first_name, search_param)
    \/ Like(u.last_name, search_param)
    \/ Like(u.email, search_param)

\* search_param = f'%{search}%'
SearchParam(search) == <<"%">> \o search \o <<"%">>

\* the users the WHERE clause keeps; every user when search is empty
MatchingUsers(search) ==
    IF search # <<>>
    THEN SelectSeq(users, LAMBDA u : SearchMatches(u, SearchParam(search)))
    ELSE users

\* one row per user: the selected columns and COUNT(o.order_id)
CustomerSummary(u) ==
    [id |-> u.id, first_name |-> u.first_name, last_name |-> u.last_name,
     email |-> u.email, country |-> u.country, created_at |-> u.created_at,
     order_count |-> OrderCount(u.id)]

\* the list query without its LIMIT/OFFSET
ListRows(search) ==
    LET m == MatchingUsers(search)
    IN  OrderByCreatedAtDesc([i \in 1..Len(m) |-> CustomerSummary(m[i])])

ListQuery(search, limit, offset) == LimitOffset(ListRows(search), limit, offset)

ListCountAll(search) == Len(users)

\* SELECT COUNT(DISTINCT u.id) ... WHERE ... / SELECT COUNT(*) FROM users
ListCount(search) ==
    IF search # <<>>
    THEN Cardinality({u.id : u \in Range(MatchingUsers(search))})
    ELSE Len(users)

\* SELECT id FROM users WHERE id = ?
UserExists(customer_id) == \E i \in 1..Len(users) : users[i].id = customer_id

OrderFull(o) ==
    [order_id |-> o.order_id, status |-> o.status, num_of_item |-> o.num_of_item,
     created_at |-> o.created_at]

\* the orders query without its LIMIT/OFFSET
OrderRows(customer_id) ==
    LET m == OrderByCreatedAtDesc(OrdersOf(customer_id))
    IN  [i \in 1..Len(m) |-> OrderFull(m[i])]

OrdersQuery(customer_id, limit, offset) ==
    LimitOffset(OrderRows(customer_id), limit, offset)

\* SELECT COUNT(*) FROM orders WHERE user_id = ?
OrdersCount(customer_id) == Len(OrdersOf(customer_id))

\* the customer row of get_customer_details
CustomerFull(u) ==
    [id |-> u.id, first_name |-> u.first_name, last_name |-> u.last_name,
     email |-> u.email, country |-> u.country, created_at |-> u.created_at,
     order_count |-> OrderCount(u.id),
     total_items_ordered |-> SqlSum(OrdersOf(u.id))]

UserById(customer_id) == users[CHOOSE i \in 1..Len(users) : users[i].id = customer_id]

\* LIMIT 5 of the recent orders query
RecentLimit == 5

RecentOrdersUnordered(customer_id) ==
    LET m == OrdersOf(customer_id)
    IN  LimitOffset([i \in 1..Len(m) |-> OrderFull(m[i])], RecentLimit, 0)

RecentOrders(customer_id) == LimitOffset(OrderRows(customer_id), RecentLimit, 0)

\* the aggregate row over a set of orders, shaped as the response shapes it
OrderStatistics(rows) ==
    [total_orders |-> Len(rows),
     total_items |-> OrZero(SqlSum(rows)),
     avg_items_per_order |-> OrZero(SqlAvg100(rows)),
     completed_orders |-> CountStatus(rows, "Complete"),
     shipped_orders |-> CountStatus(rows, "Shipped"),
     cancelled_orders |-> CountStatus(rows, "Cancelled")]

\* the orders that users LEFT JOIN orders pairs with a user
\* every orders row, paired with a user or not
JoinedOrdersAll == orders


JoinedOrders == SelectSeq(orders, LAMBDA o : UserExists(o.user_id))

OverallStatistics ==
    [total_customers |-> Cardinality({u.id : u \in Range(users)})]
        @@ OrderStatistics(JoinedOrders)

\* the countries of the users, each once, in visiting order
RECURSIVE CountriesOf(_)
CountriesOf(us) ==
    IF us = <<>> THEN <<>>
    ELSE LET rest == CountriesOf(SubSeq(us, 1, Len(us) - 1))
             c == us[Len(us)].country
         IN  IF c = Null \/ c \in Range(rest) THEN rest ELSE Append(rest, c)

CountryRow(c) ==
    LET ids == {u.id : u \in {x \in Range(users) : x.country = c}}
    IN  [country |-> c,
         customer_count |-> Cardinality(ids),
         order_count |-> Len(SelectSeq(orders, LAMBDA o : o.user_id \in ids))]

\* LIMIT 5 of the countries query
TopCountriesLimit == 5

TopCountriesUnordered ==
    LET cs == CountriesOf(users)
    IN  LimitOffset([i \in 1..Len(cs) |-> CountryRow(cs[i])], TopCountriesLimit, 0)

TopCountries ==
    LET cs == CountriesOf(users)
        rows == [i \in 1..Len(cs) |-> CountryRow(cs[i])]
    IN  LimitOffset(OrderByDesc(rows, "order_count"), TopCountriesLimit, 0)

(* ---------------------------- response bodies --------------------------- *)

ListBody(page, limit, search) ==
    [success |-> TRUE,
     data |-> ListQuery(search, limit, Offset(page, limit)),
     pagination |-> Pagination(page, limit, ListCount(search)),
     search |-> IF search # <<>> THEN search ELSE None]

OrdersBody(customer_id, page, limit) ==
    [success |-> TRUE,
     data |-> OrdersQuery(customer_id, limit, Offset(page, limit)),
     pagination |-> Pagination(page, limit, OrdersCount(customer_id))]

DetailsBody(customer_id) ==
    [success |-> TRUE,
     data |-> [customer |-> CustomerFull(UserById(customer_id)),
               recent_orders |-> RecentOrders(customer_id),
               order_statistics |-> OrderStatistics(OrdersOf(customer_id))]]

StatisticsBody ==
    [success |-> TRUE,
     data |-> [overall_statistics |-> OverallStatistics,
               top_countries |-> TopCountries]]

HealthBody ==
    [status |-> "OK", message |-> "Customer API is running", timestamp |-> "now"]

CustomerNotFound ==
    ErrorBody("Customer not found", "Customer with ID <customer_id> does not exist")

(* --------------------------- src/app.py (Flask) ------------------------- *)

health_check == Resp("health_check", 200, HealthBody, 0)

list_customers(args) ==
    LET p == IntArg(args, "page", 1)
        l == IntArg(args, "limit", 10)
    IN  IF ~p.ok \/ ~l.ok
        THEN Resp("list_customers", 400, ErrorBody("Invalid pagination parameters", ValueErrorText), 0)
        ELSE Resp("list_customers", 200,
                  ListBody(ClampPage(p.n), ClampLimit(l.n),
                           Strip(Get(args, "search", <<>>))),
                  2)

\* customer_id is the digits of the path segment; int() of them is bound to
\* the statement
get_customer_details(customer_id) ==
    IF ~FitsInt64(customer_id)
    THEN Resp("get_customer_details", 500, ErrorBody("Internal server error", OverflowErrorText), 0)
    ELSE IF ~UserExists(DigitsValue(customer_id))
    THEN Resp("get_customer_details", 404, CustomerNotFound, 1)
    ELSE Resp("get_customer_details", 200, DetailsBody(DigitsValue(customer_id)), 3)

get_customer_orders(customer_id, args) ==
    LET p == IntArg(args, "page", 1)
        l == IntArg(args, "limit", 10)
    IN  IF ~p.ok \/ ~l.ok
        THEN Resp("get_customer_orders", 400, ErrorBody("Invalid pagination parameters", ValueErrorText), 0)
        ELSE IF ~FitsInt64(customer_id)
        THEN Resp("get_customer_orders", 500, ErrorBody("Internal server error", OverflowErrorText), 0)
        ELSE IF ~UserExists(DigitsValue(customer_id))
        THEN Resp("get_customer_orders", 404, CustomerNotFound, 1)
        ELSE Resp("get_customer_orders", 200,
                  OrdersBody(DigitsValue(customer_id), ClampPage(p.n), ClampLimit(l.n)),
                  3)

get_statistics == Resp("get_statistics", 200, StatisticsBody, 2)

not_found ==
    Resp("not_found", 404, ErrorBody("Not found", "The requested resource was not found"), 0)

\* the URL map the @app.route decorators build; the query string plays no
\* part in the match
flask_app(target) ==
    IF target.base = "health" /\ target.id = <<>>
    THEN health_check
    ELSE IF target.base = "customers" /\ target.id = <<>>
    THEN list_customers(request_args(target))
    ELSE IF target.base = "customers" /\ AllDigits(target.id) /\ target.tail = ""
    THEN get_customer_details(target.id)
    ELSE IF target.base = "customers" /\ AllDigits(target.id) /\ target.tail = "orders"
    THEN get_customer_orders(target.id, request_args(target))
    ELSE IF target.base = "statistics" /\ target.id = <<>>
    THEN get_statistics
    ELSE not_found

(* ------------------- src/simple_api.py (http.server) -------------------- *)

\* an exception leaving a handler
Raise(op, text, queries) == [op |-> op, raised |-> text, queries |-> queries]

Raised(r) == "raised" \in DOMAIN r

handle_list_customers(query_string) ==
    LET params == parse_query_params(query_string)
        p == IntArg(params, "page", 1)
        l == IntArg(params, "limit", 10)
    IN  IF ~p.ok \/ ~l.ok
        THEN Raise("list_customers", ValueErrorText, 0)
        ELSE Resp("list_customers", 200,
                  ListBody(ClampPage(p.n), ClampLimit(l.n),
                           Strip(Get(params, "search", <<>>))),
                  2)

handle_get_customer_details(customer_id) ==
    IF ~FitsInt64(customer_id)
    THEN Raise("get_customer_details", OverflowErrorText, 0)
    ELSE IF ~UserExists(DigitsValue(customer_id))
    THEN Resp("get_customer_details", 404, CustomerNotFound, 1)
    ELSE Resp("get_customer_details", 200, DetailsBody(DigitsValue(customer_id)), 3)

handle_get_customer_orders(customer_id, query_string) ==
    LET params == parse_query_params(query_string)
        p == IntArg(params, "page", 1)
        l == IntArg(params, "limit", 10)
    IN  IF ~p.ok \/ ~l.ok
        THEN Raise("get_customer_orders", ValueErrorText, 0)
        ELSE IF ~FitsInt64(customer_id)
        THEN Raise("get_customer_orders", OverflowErrorText, 0)
        ELSE IF ~UserExists(DigitsValue(customer_id))
        THEN Resp("get_customer_orders", 404, CustomerNotFound, 1)
        ELSE Resp("get_customer_orders", 200,
                  OrdersBody(DigitsValue(customer_id), ClampPage(p.n), ClampLimit(l.n)),
                  3)

handle_get_statistics == Resp("get_statistics", 200, StatisticsBody, 2)

\* path.startswith('/api/customers')
StartsWithApiCustomers(path) == path.base \in {"customers", "customers2"}

\* path == '/api/<base>'
PathIsAnyBase(path, base) ==
    path.id = <<>> /\ path.tail = "" /\ ~path.hasQuery

PathIs(path, base) ==
    path.base = base /\ path.id = <<>> /\ path.tail = "" /\ ~path.hasQuery

\* path.split('?', 1)[0]
BeforeQuestionMark(path) == [path EXCEPT !.hasQuery = FALSE, !.query = NoParams]

\* re.match(r'/api/customers/(\d+)$', path)
customer_match(path) ==
    path.base = "customers" /\ AllDigits(path.id) /\ path.tail = "" /\ ~path.hasQuery

\* re.match(r'/api/customers/(\d+)/orders$', path)
customer_orders_match(path) ==
    path.base = "customers" /\ AllDigits(path.id) /\ path.tail = "orders"
        /\ ~path.hasQuery

\* the body of the try block of do_GET
do_GET_try(self_path) ==
    LET split == StartsWithApiCustomers(self_path) /\ self_path.hasQuery
        path == IF split THEN BeforeQuestionMark(self_path) ELSE self_path
    IN  IF PathIs(self_path, "health")
        THEN Resp("health_check", 200, HealthBody, 0)
        ELSE IF split /\ PathIs(path, "customers")
        THEN handle_list_customers(self_path.query)
        ELSE IF customer_match(path)
        THEN handle_get_customer_details(path.id)
        ELSE IF customer_orders_match(path)
        THEN handle_get_customer_orders(path.id,
                                        IF path.hasQuery THEN path.query ELSE NoParams)
        ELSE IF PathIs(path, "statistics")
        THEN handle_get_statistics
        ELSE Resp("not_found", 404,
                  ErrorBody("Not found", "The requested resource was not found"), 0)

\* except Exception as e: 500 with str(e)
do_GET(self_path) ==
    LET r == do_GET_try(self_path)
    IN  IF Raised(r)
        THEN Resp(r.op, 500, ErrorBody("Internal server error", r.raised), r.queries)
        ELSE r

(* ------------------------- datasets and requests ------------------------ *)

\* the instants a row can be created at: two of them give ties and strict
\* order
CreatedAts == {1, 2}

FirstNameOf(id) == IF id % 2 = 1 THEN <<"A", "l">> ELSE <<"B", "o">>

LastNameOf(id) == IF id % 3 = 0 THEN <<"L", "a">> ELSE <<"K", "o">>

EmailOf(id) == Decimal(id) \o <<"@", "x">>

CountryOf(id) == IF id % 3 = 0 THEN Null ELSE IF id % 2 = 1 THEN "US" ELSE "IN"

UserAt(id, created_at) ==
    UserRow(id, FirstNameOf(id), LastNameOf(id), EmailOf(id), CountryOf(id), created_at)

StatusOf(order_id) ==
    CASE order_id % 4 = 1 -> "Complete"
      [] order_id % 4 = 2 -> "Shipped"
      [] order_id % 4 = 3 -> "Cancelled"
      [] OTHER -> "Processing"

OrderAt(order_id, user_id, created_at) ==
    OrderRow(order_id, user_id, StatusOf(order_id), (order_id % 3) + 1, created_at)

\* every order in which the engine may visit the keys S
Perms(S) ==
    {p \in [1..Cardinality(S) -> S] : \A i, j \in DOMAIN p : p[i] = p[j] => i = j}

\* every users table over ids 1..MaxUsers, in every visiting order
UserTables ==
    UNION {UNION {{[i \in DOMAIN p |-> UserAt(p[i], t[p[i]])] : p \in Perms(I)}
                  : t \in [I -> CreatedAts]}
           : I \in SUBSET (1..MaxUsers)}

\* every orders table over order ids 1..MaxOrders whose orders all belong to
\* user_id, in every visiting order
OrderTables(user_id) ==
    UNION {UNION {{[i \in DOMAIN p |-> OrderAt(p[i], user_id, t[p[i]])] : p \in Perms(I)}
                  : t \in [I -> CreatedAts]}
           : I \in SUBSET (1..MaxOrders)}

Absent == <<"absent">>

\* the query string holding the parameters that are not Absent
Query(page, limit, search) ==
    LET given == [k \in {"page", "limit", "search"} |->
                     IF k = "page" THEN page ELSE IF k = "limit" THEN limit ELSE search]
    IN  [k \in {x \in DOMAIN given : given[x] # Absent} |-> given[k]]

Garbage == <<"a", "b", "c">>

PageValues == (0 - 1)..MaxPage

LimitValues == {0 - 1, 0, 1, 2, 101}

PageTexts == {Decimal(n) : n \in PageValues} \cup {Garbage, Absent}

LimitTexts == {Decimal(n) : n \in LimitValues} \cup {Garbage, Absent}

SearchTexts == {<<"a">>, <<"%20">>, Absent}

\* GET /api/customers with and without a query string
ListTargets ==
    {Target("customers", <<>>, "", TRUE, Query(p, l, s)) :
        p \in PageTexts, l \in LimitTexts, s \in SearchTexts}
    \cup {Target("customers", <<>>, "", FALSE, NoParams)}

(* ------------------------------- behaviour ------------------------------ *)

NoRequest == [server |-> "none"]

NoResponse == [op |-> "none", status |-> 0]

NoPager == [state |-> "off"]

\* no request is being handled step by step
NoHandlers == <<>>

\* no cursor has been created
NoCursors == <<>>

\* the loader's CSV directory is not looked at
NoFiles ==
    [users_csv |-> [exists |-> FALSE, rows |-> <<>>],
     orders_csv |-> [exists |-> FALSE, rows |-> <<>>]]

Idle == request.server = "none"

\* answers the request and empties the orders table
FlaskServeDropping(target) ==
    /\ Idle
    /\ request' = [server |-> "flask", target |-> target]
    /\ response' = flask_app(target)
    /\ orders' = <<>>
    /\ UNCHANGED <<users, pager, handlers, cursors, files>>

\* the Flask application answers one request
FlaskServe(target) ==
    /\ Idle
    /\ request' = [server |-> "flask", target |-> target]
    /\ response' = flask_app(target)
    /\ UNCHANGED <<users, orders, pager, handlers, cursors, files>>

\* CustomerAPIHandler answers one request
SimpleServe(target) ==
    /\ Idle
    /\ request' = [server |-> "simple", target |-> target]
    /\ response' = do_GET(target)
    /\ UNCHANGED <<users, orders, pager, handlers, cursors, files>>

\* the client has read the response; the server waits for the next request
Done ==
    /\ ~Idle
    /\ pager.state = "off"
    /\ request' = NoRequest
    /\ response' = NoResponse
    /\ UNCHANGED <<users, orders, pager, handlers, cursors, files>>

\* ListCustomers on both servers, over every users table
ListOrders == <<OrderAt(1, 1, 1), OrderAt(2, 1, 2), OrderAt(3, MaxUsers + 1, 1)>>

InitList ==
    /\ users \in UserTables
    /\ orders = ListOrders
    /\ request = NoRequest
    /\ response = NoResponse
    /\ pager = NoPager
    /\ handlers = NoHandlers
    /\ cursors = NoCursors
    /\ files = NoFiles

NextList ==
    \/ \E t \in ListTargets : FlaskServe(t)
    \/ \E t \in ListTargets : SimpleServe(t)
    \/ Done

SpecList == InitList /\ [][NextList]_vars

(* the whole API on both servers, over small datasets with users without
   orders, users with several orders and orphaned orders *)

RECURSIVE Ascending(_)
Ascending(S) ==
    IF S = {} THEN <<>>
    ELSE LET m == CHOOSE x \in S : \A y \in S : x <= y
         IN  <<m>> \o Ascending(S \ {m})

SmallUserTables ==
    {[i \in 1..Cardinality(I) |-> UserAt(Ascending(I)[i], IF Ascending(I)[i] = 1 THEN 2 ELSE 1)]
        : I \in SUBSET (1..MaxUsers)}

\* the last order is orphaned, the others belong to user 1
OwnerOf(order_id) == IF order_id = MaxOrders THEN MaxUsers + 1 ELSE 1

SmallOrderTables ==
    {[i \in 1..Cardinality(I) |->
         OrderAt(Ascending(I)[i], OwnerOf(Ascending(I)[i]), (Ascending(I)[i] % 2) + 1)]
        : I \in SUBSET (1..MaxOrders)}

\* 2^63, one more than SQLite stores
TooBig == <<"9", "2", "2", "3", "3", "7", "2", "0", "3", "6",
            "8", "5", "4", "7", "7", "5", "8", "0", "8">>

IdTexts == {Decimal(n) : n \in 0..(MaxUsers + 1)} \cup {TooBig, Garbage}

\* "?x=1", a query string no handler reads
OtherQuery == [k \in {"x"} |-> <<"1">>]

DetailTargets ==
    {Target("customers", id, "", q, IF q THEN OtherQuery ELSE NoParams) :
        id \in IdTexts, q \in BOOLEAN}

OrdersTargets ==
    {Target("customers", id, "orders", TRUE, Query(p, l, Absent)) :
        id \in IdTexts, p \in PageTexts, l \in LimitTexts}
    \cup {Target("customers", id, "orders", FALSE, NoParams) : id \in IdTexts}

OtherTargets ==
    {Target(b, <<>>, "", q, IF q THEN OtherQuery ELSE NoParams) :
        b \in {"health", "statistics", "nonexistent", "customers2"}, q \in BOOLEAN}

AllTargets == ListTargets \cup DetailTargets \cup OrdersTargets \cup OtherTargets

Init ==
    /\ users \in SmallUserTables
    /\ orders \in SmallOrderTables
    /\ request = NoRequest
    /\ response = NoResponse
    /\ pager = NoPager
    /\ handlers = NoHandlers
    /\ cursors = NoCursors
    /\ files = NoFiles

Next ==
    \/ \E t \in AllTargets : FlaskServe(t)
    \/ \E t \in AllTargets : SimpleServe(t)
    \/ Done

Spec == Init /\ [][Next]_vars

(* ------------------------- reading a served request --------------------- *)


Served == request.server # "none"

\* the text written for a query parameter, Absent when it is not there
AskedText(key) ==
    IF key \in DOMAIN request.target.query THEN request.target.query[key] ELSE Absent

WrittenInts == PageValues \cup LimitValues

IsWritten(text) == \E n \in WrittenInts : Decimal(n) = text

IntegerOrAbsent(key) == AskedText(key) = Absent \/ IsWritten(AskedText(key))

\* the integer the client wrote, the documented default when it wrote none
AskedInt(key, default) ==
    IF AskedText(key) = Absent THEN default
    ELSE CHOOSE n \in WrittenInts : Decimal(n) = AskedText(key)

OnListRoute ==
    request.target.base = "customers" /\ request.target.id = <<>> /\ request.target.tail = ""

OnDetailsRoute ==
    request.target.base = "customers" /\ AllDigits(request.target.id)
        /\ request.target.tail = ""

OnOrdersRoute ==
    request.target.base = "customers" /\ AllDigits(request.target.id)
        /\ request.target.tail = "orders"

OnOtherRoute(base) == request.target.base = base /\ request.target.id = <<>>

OnDefinedRoute ==
    OnListRoute \/ OnDetailsRoute \/ OnOrdersRoute
        \/ OnOtherRoute("health") \/ OnOtherRoute("statistics")

\* the search term a list response reports, empty when it reports none
ReportedSearch == IF response.body.search = None THEN <<>> ELSE response.body.search

\* rows from+1 .. from+count of a result set, as far as it reaches
Window(full, from, count) ==
    [i \in 1..(IF Len(full) - from < 0 THEN 0
               ELSE IF Len(full) - from < count THEN Len(full) - from ELSE count)
        |-> full[from + i]]

CeilDiv(total, limit) ==
    CHOOSE k \in 0..total : k * limit >= total /\ (k = 0 \/ (k - 1) * limit < total)

(* --------------------------------- claims ------------------------------- *)

\* C1: a successful ListCustomers response to page >= 1 and limit in 1..100
\* holds at most limit rows, and they are rows offset+1 .. offset+limit of the
\* filtered, ordered result set, offset = (page - 1) * limit.
C1_ListWindow ==
    (/\ Served
     /\ response.op = "list_customers"
     /\ response.status = 200
     /\ IsWritten(AskedText("page")) /\ IsWritten(AskedText("limit"))
     /\ AskedInt("page", 1) >= 1
     /\ AskedInt("limit", 10) \in 1..100)
    => LET page == AskedInt("page", 1)
           limit == AskedInt("limit", 10)
           full == ListRows(ReportedSearch)
       IN  /\ Len(response.body.data) <= limit
           /\ response.body.data = Window(full, (page - 1) * limit, limit)

C1_Witness ==
    /\ Served
    /\ response.op = "list_customers"
    /\ response.status = 200
    /\ AskedText("page") = Decimal(2)
    /\ AskedText("limit") = Decimal(1)
    /\ Len(users) = 3
    /\ Len(response.body.data) = 1
    /\ response.body.data[1] = ListRows(ReportedSearch)[2]
    /\ response.body.data[1] # ListRows(ReportedSearch)[1]

NamedUserExists == \E i \in 1..Len(users) : Decimal(users[i].id) = request.target.id

\* C2: every successful ListCustomers and GetCustomerOrders response has
\* total_pages = ceil(total / limit), 0 when total is 0, has_next exactly when
\* page < total_pages and has_prev exactly when page > 1.
C2_PaginationArithmetic ==
    (/\ Served
     /\ response.status = 200
     /\ response.op \in {"list_customers", "get_customer_orders"})
    => LET pg == response.body.pagination
       IN  /\ pg.total_pages = CeilDiv(pg.total, pg.limit)
           /\ (pg.total = 0 => pg.total_pages = 0)
           /\ pg.has_next = (pg.page < pg.total_pages)
           /\ pg.has_prev = (pg.page > 1)

C2_Witness ==
    /\ Served
    /\ response.status = 200
    /\ response.op = "get_customer_orders"
    /\ request.server = "flask"
    /\ response.body.pagination.total = 2
    /\ response.body.pagination.limit = 1
    /\ response.body.pagination.page = 1
    /\ response.body.pagination.total_pages = 2
    /\ response.body.pagination.has_next

\* C4: on both servers GetCustomerOrders for an existing customer applies the
\* page and limit of the query string: the response reports the normalized
\* values and holds the window they select.
C4_OrdersPaginationApplied ==
    (/\ Served
     /\ OnOrdersRoute
     /\ NamedUserExists
     /\ IntegerOrAbsent("page") /\ IntegerOrAbsent("limit"))
    => LET page == AskedInt("page", 1)
           limit == AskedInt("limit", 10)
           page1 == IF page < 1 THEN 1 ELSE page
           limit1 == IF limit < 1 THEN 1 ELSE IF limit > 100 THEN 100 ELSE limit
       IN  /\ response.status = 200
           /\ response.body.pagination.page = page1
           /\ response.body.pagination.limit = limit1
           /\ response.body.data
                = Window(OrderRows(DigitsValue(request.target.id)),
                         (page1 - 1) * limit1, limit1)

\* C6: GetCustomerDetails for an id no customer has answers 404 "Customer not
\* found", whatever the id (0, ids beyond 64 bits) and whatever orders exist.
C6_MissingCustomerIs404 ==
    (Served /\ OnDetailsRoute /\ ~NamedUserExists)
    => /\ response.status = 404
       /\ response.body.success = FALSE
       /\ response.body.error = "Customer not found"

\* C7: GetCustomerOrders for an id no customer has answers 404 "Customer not
\* found" with no orders and no pagination, orphaned orders or not.
C7_OrdersOfMissingCustomerIs404 ==
    (/\ Served
     /\ OnOrdersRoute
     /\ ~NamedUserExists
     /\ IntegerOrAbsent("page") /\ IntegerOrAbsent("limit"))
    => /\ response.status = 404
       /\ response.body.error = "Customer not found"
       /\ DOMAIN response.body \cap {"data", "pagination"} = {}

\* C8: on both servers a ListCustomers or GetCustomerOrders request whose page
\* or limit is not an integer answers 400 "Invalid pagination parameters".
C8_BadPaginationIs400 ==
    (/\ Served
     /\ OnListRoute \/ OnOrdersRoute
     /\ ~IntegerOrAbsent("page") \/ ~IntegerOrAbsent("limit"))
    => /\ response.status = 400
       /\ response.body.success = FALSE
       /\ response.body.error = "Invalid pagination parameters"

\* C9: a request to a path that is no defined route answers 404 with
\* success false, error "Not found" and a message, and queries nothing.
C9_UnknownRouteIs404 ==
    (Served /\ ~OnDefinedRoute)
    => /\ response.status = 404
       /\ response.body.success = FALSE
       /\ response.body.error = "Not found"
       /\ "message" \in DOMAIN response.body
       /\ response.queries = 0

C9_Witness ==
    /\ Served
    /\ request.server = "simple"
    /\ request.target.base = "nonexistent"
    /\ Len(users) > 0
    /\ response.status = 404
    /\ response.body.error = "Not found"
    /\ response.queries = 0

\* C10: on both servers GET /api/customers without a query string answers 200
\* with page 1 and limit 10, and a defined route followed by any query string
\* is still served by its handler.
C10_RoutesWithAndWithoutQuery ==
    /\ (Served /\ OnListRoute /\ ~request.target.hasQuery)
       => /\ response.status = 200
          /\ response.body.pagination.page = 1
          /\ response.body.pagination.limit = 10
    /\ (Served /\ OnDefinedRoute /\ request.target.hasQuery)
       => response.op # "not_found"

(* a client that reads every page of one customer's orders, as the paging
   loop of a front end does: page 1, then the next page while the response
   reports more pages *)

PagerLimits == {Decimal(1), Decimal(2), Decimal(5), Absent}

\* the orders of customer 1, all at one timestamp or at two alternating ones
PagerOrderTables ==
    {[i \in 1..n |-> OrderAt(i, 1, IF tied THEN 1 ELSE (i % 2) + 1)] :
        n \in 0..MaxPagerOrders, tied \in BOOLEAN}

PagerTarget ==
    Target("customers", Decimal(1), "orders", TRUE,
           Query(Decimal(pager.page), pager.limit, Absent))

PagerStart(server, limit) ==
    /\ pager.state = "off"
    /\ Idle
    /\ pager' = [state |-> "paging", server |-> server, limit |-> limit,
                 page |-> 1, collected |-> <<>>]
    /\ UNCHANGED <<users, orders, request, response, handlers, cursors, files>>

PagerFetch ==
    /\ pager.state = "paging"
    /\ IF pager.server = "flask" THEN FlaskServe(PagerTarget) ELSE SimpleServe(PagerTarget)

PagerCollect ==
    /\ pager.state = "paging"
    /\ ~Idle
    /\ pager' = IF response.status # 200
                THEN [pager EXCEPT !.state = "failed"]
                ELSE IF pager.page < response.body.pagination.total_pages
                THEN [pager EXCEPT !.collected = @ \o response.body.data,
                                   !.page = @ + 1]
                ELSE [pager EXCEPT !.collected = @ \o response.body.data,
                                   !.state = "complete"]
    /\ request' = NoRequest
    /\ response' = NoResponse
    /\ UNCHANGED <<users, orders, handlers, cursors, files>>

InitPager ==
    /\ users = <<UserAt(1, 1)>>
    /\ orders \in PagerOrderTables
    /\ request = NoRequest
    /\ response = NoResponse
    /\ pager = NoPager
    /\ handlers = NoHandlers
    /\ cursors = NoCursors
    /\ files = NoFiles

NextPager ==
    \/ \E server \in {"flask", "simple"}, limit \in PagerLimits : PagerStart(server, limit)
    \/ PagerFetch
    \/ PagerCollect

SpecPager == InitPager /\ [][NextPager]_vars

\* C5: the pages 1 .. total_pages of GetCustomerOrders for one customer and
\* one limit, read from an unchanged store and put end to end, hold every
\* order of the customer exactly once, equal created_at values or not.
C5_PagesHoldEachOrderOnce ==
    pager.state = "complete"
    => /\ Len(pager.collected) = Len(OrdersOf(1))
       /\ {pager.collected[i].order_id : i \in 1..Len(pager.collected)}
            = {OrdersOf(1)[i].order_id : i \in 1..Len(OrdersOf(1))}

\* C11: every user ListCustomers returns carries an order_count equal to the
\* number of orders rows whose user_id is that user's id, 0 for a user
\* without orders, whatever the search term, page and limit.
C11_OrderCountPerUser ==
    (Served /\ response.op = "list_customers" /\ response.status = 200)
    => \A i \in 1..Len(response.body.data) :
          response.body.data[i].order_count
            = Cardinality({j \in 1..Len(orders) :
                              orders[j].user_id = response.body.data[i].id})

C11_Witness ==
    /\ Served
    /\ response.op = "list_customers"
    /\ response.status = 200
    /\ AskedText("search") = <<"a">>
    /\ \E i \in 1..Len(response.body.data) : response.body.data[i].order_count = 2
    /\ \E i \in 1..Len(response.body.data) : response.body.data[i].order_count = 0
    /\ \E j \in 1..Len(orders) : ~UserExists(orders[j].user_id)

(* ListCustomers with search terms, wildcard characters of LIKE among them,
   on both servers over every users table *)

SearchTerms ==
    {<<"a">>, <<"_">>, <<"%25">>, <<"@">>, <<"1", "@">>, <<"%20">>, <<"o", "%20">>, Absent}

SearchTargets ==
    {Target("customers", <<>>, "", TRUE, Query(Absent, l, s)) :
        l \in {Decimal(1), Absent}, s \in SearchTerms}

InitSearch ==
    /\ users \in UserTables
    /\ orders = ListOrders
    /\ request = NoRequest
    /\ response = NoResponse
    /\ pager = NoPager
    /\ handlers = NoHandlers
    /\ cursors = NoCursors
    /\ files = NoFiles

NextSearch ==
    \/ \E t \in SearchTargets : FlaskServe(t)
    \/ \E t \in SearchTargets : SimpleServe(t)
    \/ Done

SpecSearch == InitSearch /\ [][NextSearch]_vars

\* text contains term as a substring, letters compared without case
Contains(text, term) ==
    \E k \in 0..(Len(text) - Len(term)) :
        \A i \in 1..Len(term) : Lower(text[k + i]) = Lower(term[i])

\* the users whose first_name, last_name or email contains the term
UsersContaining(term) ==
    {users[i].id : i \in {j \in 1..Len(users) :
        \/ Contains(users[j].first_name, term)
        \/ Contains(users[j].last_name, term)
        \/ Contains(users[j].email, term)}}

\* C12: for a non-empty trimmed search term of any characters, '%' and '_'
\* included, ListCustomers selects exactly the users whose first_name,
\* last_name or email contains the term as a substring; an empty or
\* whitespace-only search selects every user.
C12_SearchIsSubstring ==
    (Served /\ response.op = "list_customers" /\ response.status = 200)
    => LET expected == IF ReportedSearch = <<>>
                       THEN {users[i].id : i \in 1..Len(users)}
                       ELSE UsersContaining(ReportedSearch)
       IN  /\ response.body.pagination.total = Cardinality(expected)
           /\ \A i \in 1..Len(response.body.data) : response.body.data[i].id \in expected

C14_TotalIsUnwindowedCount ==
    /\ (Served /\ response.op = "list_customers" /\ response.status = 200)
       => response.body.pagination.total = Len(ListRows(ReportedSearch))
    /\ (Served /\ response.op = "get_customer_orders" /\ response.status = 200)
       => response.body.pagination.total
            = Cardinality({j \in 1..Len(orders) :
                              orders[j].user_id = DigitsValue(request.target.id)})

C14_Witness ==
    /\ Served
    /\ response.op = "list_customers"
    /\ response.status = 200
    /\ AskedText("search") = <<"a">>
    /\ AskedText("page") = Decimal(3)
    /\ AskedText("limit") = Decimal(1)
    /\ Len(users) = 3
    /\ response.body.pagination.total = 2
    /\ response.body.data = <<>>

(* GetCustomerDetails and GetStatistics on both servers, over datasets with
   more orders than the recent-orders limit, more countries than the
   top-countries limit, orphaned orders and statuses in several spellings *)

StatsCountryNames == <<"US", "IN", "BR", "CN", "FR", "DE", "JP", "UK">>

\* "distinct": one country per user; "shared": two countries and users
\* without a country
StatsCountryOf(id, countries) ==
    IF countries = "distinct"
    THEN StatsCountryNames[((id - 1) % Len(StatsCountryNames)) + 1]
    ELSE CountryOf(id)

StatsUserTables ==
    {[i \in 1..n |->
         UserRow(i, FirstNameOf(i), LastNameOf(i), EmailOf(i), StatsCountryOf(i, c), 1)] :
        n \in 0..MaxStatsUsers, c \in {"distinct", "shared"}}

StatsStatusOf(order_id) ==
    CASE order_id % 6 = 1 -> "Complete"
      [] order_id % 6 = 2 -> "Shipped"
      [] order_id % 6 = 3 -> "complete"
      [] order_id % 6 = 4 -> "Cancelled"
      [] order_id % 6 = 5 -> "Processing"
      [] OTHER -> "Returned"

StatsItemsOf(order_id) == 3 - ((order_id - 1) % 3)

StatsOwnerOf(order_id, owners) ==
    CASE owners = "first" -> 1
      [] owners = "last" -> MaxStatsUsers
      [] OTHER -> ((order_id - 1) % (MaxStatsUsers + 1)) + 1

StatsCreatedAtOf(order_id, times) ==
    CASE times = "tied" -> 1
      [] times = "alternate" -> (order_id % 2) + 1
      [] times = "rising" -> order_id
      [] OTHER -> MaxStatsOrders + 1 - order_id

StatsOrderAt(order_id, owners, times) ==
    OrderRow(order_id, StatsOwnerOf(order_id, owners), StatsStatusOf(order_id),
             StatsItemsOf(order_id), StatsCreatedAtOf(order_id, times))

\* orders 1..m, visited by ascending or by descending order_id
StatsOrderTables ==
    {[i \in 1..m |-> StatsOrderAt(IF ascending THEN i ELSE m + 1 - i, owners, times)] :
        m \in 0..MaxStatsOrders,
        owners \in {"first", "last", "spread"},
        times \in {"tied", "alternate", "rising", "falling"},
        ascending \in BOOLEAN}

StatsTargets ==
    {Target("customers", Decimal(id), "", FALSE, NoParams) : id \in {1, 2, MaxStatsUsers}}
    \cup {Target("statistics", <<>>, "", FALSE, NoParams)}

InitStats ==
    /\ users \in StatsUserTables
    /\ orders \in StatsOrderTables
    /\ request = NoRequest
    /\ response = NoResponse
    /\ pager = NoPager
    /\ handlers = NoHandlers
    /\ cursors = NoCursors
    /\ files = NoFiles

NextStats ==
    \/ \E t \in StatsTargets : FlaskServe(t)
    \/ \E t \in StatsTargets : SimpleServe(t)
    \/ Done

SpecStats == InitStats /\ [][NextStats]_vars

\* the customer a details request names, once the request succeeded
NamedId == DigitsValue(request.target.id)

\* the orders rows of user uid, as a set of positions in the table
OrdersAt(uid) == {j \in 1..Len(orders) : orders[j].user_id = uid}

RECURSIVE ItemsAt(_)
\* the sum of num_of_item over a set of positions of the orders table
ItemsAt(S) ==
    IF S = {} THEN 0
    ELSE LET j == CHOOSE x \in S : TRUE
         IN  orders[j].num_of_item + ItemsAt(S \ {j})

\* C15: in a successful GetCustomerDetails response customer.total_items_ordered
\* is the sum of num_of_item over that user's orders, the number 0 and not
\* null when the user has no orders.
C15_TotalItemsOrderedNeverNull ==
    (Served /\ response.op = "get_customer_details" /\ response.status = 200)
    => /\ ~response.body.data.customer.total_items_ordered.null
       /\ response.body.data.customer.total_items_ordered.v = ItemsAt(OrdersAt(NamedId))

\* C16: for an existing user, order_statistics of GetCustomerDetails has
\* total_orders = the number of the user's orders, total_items = the sum of
\* their num_of_item, avg_items_per_order = total_items / total_orders to
\* the nearest hundredth (kept here in hundredths), and completed_orders,
\* shipped_orders, cancelled_orders = the number of the user's orders whose
\* status is exactly "Complete", "Shipped", "Cancelled".
C16_OrderStatistics ==
    (Served /\ response.op = "get_customer_details" /\ response.status = 200)
    => LET st == response.body.data.order_statistics
           mine == OrdersAt(NamedId)
           n == Cardinality(mine)
           gap == st.avg_items_per_order * n - 100 * ItemsAt(mine)
       IN  /\ st.total_orders = n
           /\ st.total_items = ItemsAt(mine)
           /\ n > 0 => (2 * gap <= n /\ 0 - 2 * gap <= n)
           /\ st.completed_orders = Cardinality({j \in mine : orders[j].status = "Complete"})
           /\ st.shipped_orders = Cardinality({j \in mine : orders[j].status = "Shipped"})
           /\ st.cancelled_orders = Cardinality({j \in mine : orders[j].status = "Cancelled"})

\* orders (Complete, 3) and (Shipped, 2) give {2, 5, 2.5, 1, 1, 0}
C16_Witness ==
    /\ Served
    /\ response.op = "get_customer_details"
    /\ response.status = 200
    /\ {<<orders[j].status, orders[j].num_of_item>> : j \in OrdersAt(NamedId)}
         = {<<"Complete", 3>>, <<"Shipped", 2>>}
    /\ response.body.data.order_statistics
         = [total_orders |-> 2, total_items |-> 5, avg_items_per_order |-> 250,
            completed_orders |-> 1, shipped_orders |-> 1, cancelled_orders |-> 0]

\* C17: with an empty orders table and any number of users, none included,
\* GetStatistics succeeds with avg_items_per_order = 0 and total_items = 0;
\* so does order_statistics of GetCustomerDetails for a user without orders.
C17_NoOrdersGiveZero ==
    /\ (Served /\ OnOtherRoute("statistics") /\ orders = <<>>)
       => /\ response.status = 200
          /\ response.body.data.overall_statistics.avg_items_per_order = 0
          /\ response.body.data.overall_statistics.total_items = 0
    /\ (Served /\ response.op = "get_customer_details" /\ response.status = 200
          /\ OrdersAt(NamedId) = {})
       => /\ response.body.data.order_statistics.avg_items_per_order = 0
          /\ response.body.data.order_statistics.total_items = 0

C17_Witness ==
    /\ Served
    /\ request.server = "simple"
    /\ OnOtherRoute("statistics")
    /\ users = <<>>
    /\ orders = <<>>
    /\ response.status = 200
    /\ response.body.data.overall_statistics.avg_items_per_order = 0
    /\ response.body.data.overall_statistics.total_orders = 0

\* C18: recent_orders of a successful GetCustomerDetails response holds
\* min(5, n) of the user's n orders, each once, by created_at descending, and
\* no order of the user that is left out is later than one that is included.
C18_RecentOrders ==
    (Served /\ response.op = "get_customer_details" /\ response.status = 200)
    => LET ro == response.body.data.recent_orders
           mine == OrdersAt(NamedId)
           n == Cardinality(mine)
           shown == {ro[i].order_id : i \in 1..Len(ro)}
       IN  /\ Len(ro) = IF n < 5 THEN n ELSE 5
           /\ Cardinality(shown) = Len(ro)
           /\ shown \subseteq {orders[j].order_id : j \in mine}
           /\ \A i \in 1..(Len(ro) - 1) : ro[i].created_at >= ro[i + 1].created_at
           /\ \A j \in mine : orders[j].order_id \notin shown
                 => \A i \in 1..Len(ro) : orders[j].created_at <= ro[i].created_at

C18_Witness ==
    /\ Served
    /\ response.op = "get_customer_details"
    /\ response.status = 200
    /\ Cardinality(OrdersAt(NamedId)) > 5
    /\ Len(response.body.data.recent_orders) = 5
    /\ response.body.data.recent_orders[1].created_at
         > response.body.data.recent_orders[5].created_at
    /\ orders[1].user_id = NamedId
    /\ \A i \in 1..5 : response.body.data.recent_orders[i].order_id # orders[1].order_id

\* C19: on every dataset, orphaned orders included, GetStatistics reports
\* total_customers = the number of users rows, total_orders = the number of
\* orders rows and total_items = the sum of num_of_item over the orders rows.
C19_StatisticsCountEveryRow ==
    (Served /\ response.op = "get_statistics" /\ response.status = 200)
    => LET st == response.body.data.overall_statistics
       IN  /\ st.total_customers = Len(users)
           /\ st.total_orders = Len(orders)
           /\ st.total_items = ItemsAt(1..Len(orders))

\* the users of a country and the orders they placed, as positions
UsersIn(c) == {i \in 1..Len(users) : users[i].country = c}

OrdersFrom(c) ==
    {j \in 1..Len(orders) : \E i \in UsersIn(c) : users[i].id = orders[j].user_id}

KnownCountries == {users[i].country : i \in 1..Len(users)} \ {Null}

\* C20: top_countries of GetStatistics holds at most 5 entries, one per
\* distinct non-null country; customer_count is the number of users of the
\* country and order_count the number of orders of those users; entries come
\* by order_count descending and no country left out has more orders than a
\* listed one.
C20_TopCountries ==
    (Served /\ response.op = "get_statistics" /\ response.status = 200)
    => LET tc == response.body.data.top_countries
           listed == {tc[i].country : i \in 1..Len(tc)}
       IN  /\ Len(tc) = IF Cardinality(KnownCountries) < 5
                        THEN Cardinality(KnownCountries) ELSE 5
           /\ Cardinality(listed) = Len(tc)
           /\ listed \subseteq KnownCountries
           /\ \A i \in 1..Len(tc) :
                 /\ tc[i].customer_count = Cardinality(UsersIn(tc[i].country))
                 /\ tc[i].order_count = Cardinality(OrdersFrom(tc[i].country))
           /\ \A i \in 1..(Len(tc) - 1) : tc[i].order_count >= tc[i + 1].order_count
           /\ \A c \in KnownCountries \ listed :
                 \A i \in 1..Len(tc) : Cardinality(OrdersFrom(c)) <= tc[i].order_count

C20_Witness ==
    /\ Served
    /\ response.op = "get_statistics"
    /\ response.status = 200
    /\ Cardinality(KnownCountries) > 5
    /\ Len(response.body.data.top_countries) = 5
    /\ response.body.data.top_countries[1].country = users[Len(users)].country
    /\ response.body.data.top_countries[1].order_count > 1

\* C26: for every GET request and every dataset the Flask app and the stdlib
\* server return the same status code and the same JSON payload.
C26_ServersAgree ==
    Served
    => /\ flask_app(request.target).status = do_GET(request.target).status
       /\ flask_app(request.target).body = do_GET(request.target).body

\* C27: in every successful ListCustomers and GetCustomerOrders response,
\* has_next is true exactly when page * limit < total, and data is empty
\* exactly when (page - 1) * limit >= total, whatever the page.
C27_HasNextAndEmptyPage ==
    (/\ Served
     /\ response.status = 200
     /\ response.op \in {"list_customers", "get_customer_orders"})
    => LET pg == response.body.pagination
       IN  /\ pg.has_next = (pg.page * pg.limit < pg.total)
           /\ (response.body.data = <<>>) = ((pg.page - 1) * pg.limit >= pg.total)

\* a page past the last one of a non-empty result: no rows, no next page
C27_Witness ==
    /\ Served
    /\ response.status = 200
    /\ response.op = "list_customers"
    /\ response.body.pagination.total = 2
    /\ response.body.pagination.limit = 1
    /\ response.body.pagination.page = 3
    /\ response.body.data = <<>>
    /\ ~response.body.pagination.has_next

\* C28: in every successful GetCustomerDetails response customer.order_count
\* equals order_statistics.total_orders, customer.total_items_ordered equals
\* order_statistics.total_items, recent_orders holds min(5, total_orders)
\* rows, and completed + shipped + cancelled is at most total_orders.
C28_DetailsAgreeWithinResponse ==
    (Served /\ response.op = "get_customer_details" /\ response.status = 200)
    => LET c == response.body.data.customer
           st == response.body.data.order_statistics
       IN  /\ c.order_count = st.total_orders
           /\ ~c.total_items_ordered.null
           /\ c.total_items_ordered.v = st.total_items
           /\ Len(response.body.data.recent_orders) = Min(RecentLimit, st.total_orders)
           /\ st.completed_orders + st.shipped_orders + st.cancelled_orders
                <= st.total_orders

RECURSIVE SumField(_, _)
\* the sum of one numeric field over a sequence of records
SumField(rows, field) ==
    IF rows = <<>> THEN 0
    ELSE rows[Len(rows)][field] + SumField(SubSeq(rows, 1, Len(rows) - 1), field)

\* order_statistics of the GetCustomerDetails response of every users row
DetailsStatisticsOfAll ==
    [i \in 1..Len(users) |-> DetailsBody(users[i].id).data.order_statistics]

\* C29: total_orders, total_items, completed_orders, shipped_orders and
\* cancelled_orders of GetStatistics each equal the sum, over every existing
\* user, of the same field of that user's GetCustomerDetails order_statistics;
\* total_orders also equals the sum of order_count over all rows of an
\* unfiltered ListCustomers.
C29_StatisticsAreSumsOverUsers ==
    (Served /\ response.op = "get_statistics" /\ response.status = 200)
    => LET st == response.body.data.overall_statistics
       IN  /\ \A f \in {"total_orders", "total_items", "completed_orders",
                        "shipped_orders", "cancelled_orders"} :
                 st[f] = SumField(DetailsStatisticsOfAll, f)
           /\ st.total_orders = SumField(ListRows(<<>>), "order_count")

\* two users with orders and an order of no user: the sums leave it out
C29_Witness ==
    /\ Served
    /\ response.op = "get_statistics"
    /\ response.status = 200
    /\ \E o \in Range(orders) : ~UserExists(o.user_id)
    /\ Cardinality({o.user_id : o \in Range(JoinedOrders)}) >= 2
    /\ response.body.data.overall_statistics.total_orders = Len(orders) - 1

\* C21: no request to either server, answered with success or with an error,
\* changes the users table or the orders table.
C21_RequestsLeaveTheStoreAlone == [][users' = users /\ orders' = orders]_vars

\* an error response and a success response, both over a non-empty store
C21_Witness ==
    /\ Served
    /\ response.status = 500
    /\ users # <<>>
    /\ orders # <<>>

(* ------------------ a handler, one store call at a time ------------------ *)

\* Each slot of handlers is one request being answered: the statement it is
\* at (k), the state of the connection it opened, the rows it has fetched,
\* the text of the exception it caught and the responses it has written.
\* cursors[c] is the result set cursor c holds since its last execute.

MaxRequests == 2

MaxStatements == 3

IdleHandler ==
    [server |-> "none", target |-> Target("", <<>>, "", FALSE, NoParams),
     fault |-> [at |-> 0 - 1, text |-> ""], pc |-> "idle", conn |-> "none",
     k |-> 0, results |-> <<>>, raised |-> "", sent |-> <<>>]

\* the store works throughout the request
NoFault == [at |-> 0 - 1, text |-> ""]

\* sqlite3.connect fails (at = 0), or the at-th execute of the request does
Faults ==
    {[at |-> 0, text |-> "unable to open database file"]}
    \cup {[at |-> k, text |-> t] :
            k \in 1..MaxStatements,
            t \in {"no such table: users", "no such table: orders"}}

\* fetchall() of an exhausted cursor
Exhausted == [statement |-> <<"none", 0>>, rows |-> <<>>]

\* the response of the server to the request when nothing else goes on
Alone(server, target) ==
    IF server = "flask" THEN flask_app(target) ELSE do_GET(target)

\* the request is answered before get_db_connection() is reached: no route,
\* the health route, or int() of page or limit raised
AnsweredBeforeConnect(r) ==
    \/ r.op \in {"health_check", "not_found"}
    \/ r.status = 400
    \/ (r.status = 500 /\ r.body.message = ValueErrorText)

\* the parameters the handler reads
HandlerParams(server, target) ==
    IF server = "flask" THEN request_args(target)
    ELSE IF do_GET(target).op = "list_customers" THEN parse_query_params(target.query)
    ELSE NoParams

\* customer_id, page, limit and search as the handler binds them
HandlerArgs(server, target) ==
    LET params == HandlerParams(server, target)
    IN  [id |-> IF AllDigits(target.id) /\ FitsInt64(target.id)
                THEN DigitsValue(target.id) ELSE 0,
         page |-> ClampPage(IntArg(params, "page", 1).n),
         limit |-> ClampLimit(IntArg(params, "limit", 10).n),
         search |-> Strip(Get(params, "search", <<>>))]

\* how many statements the handler executes when every one succeeds
QueryCount(op) ==
    CASE op = "list_customers" -> 2
      [] op = "get_customer_details" -> 3
      [] op = "get_customer_orders" -> 3
      [] op = "get_statistics" -> 2

\* the statement binds customer_id
BindsCustomerId(op) == op \in {"get_customer_details", "get_customer_orders"}

\* the rows the k-th statement of the handler selects
QueryResult(op, a, k) ==
    CASE op = "list_customers" /\ k = 1 -> ListQuery(a.search, a.limit, Offset(a.page, a.limit))
      [] op = "list_customers" /\ k = 2 -> ListCount(a.search)
      [] op = "get_customer_details" /\ k = 1 ->
            IF UserExists(a.id) THEN <<CustomerFull(UserById(a.id))>> ELSE <<>>
      [] op = "get_customer_details" /\ k = 2 -> RecentOrders(a.id)
      [] op = "get_customer_details" /\ k = 3 -> OrderStatistics(OrdersOf(a.id))
      [] op = "get_customer_orders" /\ k = 1 ->
            IF UserExists(a.id) THEN <<a.id>> ELSE <<>>
      [] op = "get_customer_orders" /\ k = 2 -> OrdersQuery(a.id, a.limit, Offset(a.page, a.limit))
      [] op = "get_customer_orders" /\ k = 3 -> OrdersCount(a.id)
      [] op = "get_statistics" /\ k = 1 -> OverallStatistics
      [] op = "get_statistics" /\ k = 2 -> TopCountries

\* the body of the 200 response, put together from the fetched rows
Assemble(op, a, r) ==
    CASE op = "list_customers" ->
            [success |-> TRUE, data |-> r[1],
             pagination |-> Pagination(a.page, a.limit, r[2]),
             search |-> IF a.search # <<>> THEN a.search ELSE None]
      [] op = "get_customer_details" ->
            [success |-> TRUE,
             data |-> [customer |-> r[1][1], recent_orders |-> r[2],
                       order_statistics |-> r[3]]]
      [] op = "get_customer_orders" ->
            [success |-> TRUE, data |-> r[2],
             pagination |-> Pagination(a.page, a.limit, r[3])]
      [] op = "get_statistics" ->
            [success |-> TRUE,
             data |-> [overall_statistics |-> r[1], top_countries |-> r[2]]]

\* one cursor executed on by every handler
SharedCursor(slot) == 1

\* the cursor the handler in a slot executes on: conn.cursor() of its own
\* connection
CursorOf(slot) == slot

\* the exception is answered 400
CaughtAsBadRequest(h, text) ==
    [h EXCEPT !.pc = "returned",
              !.raised = text,
              !.sent = Append(@, Resp(Alone(h.server, h.target).op, 400,
                                      ErrorBody("Invalid pagination parameters", text),
                                      h.k - 1))]

\* an exception raised while the handler talks to the store.  Flask: the
\* handler's own `except Exception` answers 500 and returns, the connection
\* is left as it is.  http.server: `finally: conn.close()` runs when the
\* connection was opened, then do_GET's `except Exception` answers 500.
Caught(h, text) ==
    [h EXCEPT !.pc = "returned",
              !.raised = text,
              !.conn = IF h.server = "simple" /\ h.conn = "open" THEN "closed" ELSE @,
              !.sent = Append(@, Resp(Alone(h.server, h.target).op, 500,
                                      ErrorBody("Internal server error", text),
                                      Max(0, h.k - 1)))]

\* HTTPServer answers one request at a time; the Flask development server
\* gives each request a thread
MayStart(slot, server) ==
    server = "simple"
    => \A s \in DOMAIN handlers :
          s # slot => ~(handlers[s].server = "simple" /\ handlers[s].pc # "idle")

\* a request arrives: routing and the reading of page, limit and search
Receive(slot, server, target, fault) ==
    /\ handlers[slot].pc = "idle"
    /\ MayStart(slot, server)
    /\ LET alone == Alone(server, target)
           h == [IdleHandler EXCEPT !.server = server, !.target = target, !.fault = fault]
       IN  handlers' = [handlers EXCEPT ![slot] =
                IF AnsweredBeforeConnect(alone)
                THEN [h EXCEPT !.pc = "returned", !.sent = <<alone>>,
                               !.raised = IF alone.status = 500
                                          THEN alone.body.message ELSE ""]
                ELSE [h EXCEPT !.pc = "connect"]]
    /\ UNCHANGED <<users, orders, request, response, pager, cursors, files>>

\* conn = get_db_connection(); cursor = conn.cursor()
Connect(slot) ==
    LET h == handlers[slot]
    IN  /\ h.pc = "connect"
        /\ IF h.fault.at = 0
           THEN /\ handlers' = [handlers EXCEPT ![slot] = Caught(h, h.fault.text)]
                /\ UNCHANGED cursors
           ELSE /\ handlers' = [handlers EXCEPT ![slot] =
                                   [h EXCEPT !.pc = "execute", !.conn = "open", !.k = 1]]
                /\ cursors' = [cursors EXCEPT ![CursorOf(slot)] = Exhausted]
        /\ UNCHANGED <<users, orders, request, response, pager, files>>

\* cursor.execute(statement k): the statement is prepared, which fails when
\* the store is faulty, then its parameters are bound, which fails when
\* customer_id is outside the 64-bit range, then it runs
Execute(slot) ==
    LET h == handlers[slot]
        op == Alone(h.server, h.target).op
    IN  /\ h.pc = "execute"
        /\ IF h.fault.at = h.k
           THEN /\ handlers' = [handlers EXCEPT ![slot] = Caught(h, h.fault.text)]
                /\ UNCHANGED cursors
           ELSE IF BindsCustomerId(op) /\ ~FitsInt64(h.target.id)
           THEN /\ handlers' = [handlers EXCEPT ![slot] = Caught(h, OverflowErrorText)]
                /\ UNCHANGED cursors
           ELSE /\ handlers' = [handlers EXCEPT ![slot] = [h EXCEPT !.pc = "fetch"]]
                /\ cursors' = [cursors EXCEPT ![CursorOf(slot)] =
                                  [statement |-> <<op, h.k>>,
                                   rows |-> QueryResult(op, HandlerArgs(h.server, h.target), h.k)]]
        /\ UNCHANGED <<users, orders, request, response, pager, files>>

\* the customer query and the existence check found no row
NotFound(op, k, rows) == BindsCustomerId(op) /\ k = 1 /\ rows = <<>>

\* cursor.fetchall() / cursor.fetchone(): the handler reads the columns of
\* the statement it executed; sqlite3.Row raises IndexError when the rows the
\* cursor holds have other columns
Fetch(slot) ==
    LET h == handlers[slot]
        op == Alone(h.server, h.target).op
        held == cursors[CursorOf(slot)]
    IN  /\ h.pc = "fetch"
        /\ handlers' = [handlers EXCEPT ![slot] =
              IF held.statement # <<op, h.k>>
              THEN Caught(h, "No item with that key")
              ELSE IF NotFound(op, h.k, held.rows) \/ h.k = QueryCount(op)
              THEN [h EXCEPT !.pc = "respond", !.results = Append(@, held.rows)]
              ELSE [h EXCEPT !.pc = "execute", !.k = h.k + 1,
                             !.results = Append(@, held.rows)]]
        /\ cursors' = [cursors EXCEPT ![CursorOf(slot)] = Exhausted]
        /\ UNCHANGED <<users, orders, request, response, pager, files>>

\* conn.close() and the 200 or 404 response (Flask closes, then returns the
\* response; http.server writes the response, then `finally` closes)
Respond(slot) ==
    LET h == handlers[slot]
        op == Alone(h.server, h.target).op
    IN  /\ h.pc = "respond"
        /\ handlers' = [handlers EXCEPT ![slot] =
              [h EXCEPT !.pc = "returned",
                        !.conn = "closed",
                        !.sent = Append(@,
                            IF NotFound(op, h.k, h.results[1])
                            THEN Resp(op, 404, CustomerNotFound, 1)
                            ELSE Resp(op, 200,
                                      Assemble(op, HandlerArgs(h.server, h.target), h.results),
                                      QueryCount(op)))]]
        /\ UNCHANGED <<users, orders, request, response, pager, cursors, files>>

\* the client has the response; the slot is free for the next request
Release(slot) ==
    /\ handlers[slot].pc = "returned"
    /\ handlers' = [handlers EXCEPT ![slot] = IdleHandler]
    /\ UNCHANGED <<users, orders, request, response, pager, cursors, files>>

\* two users, the first with two orders, the second with one
HandlerUsers == <<UserAt(1, 2), UserAt(2, 1)>>

HandlerOrders == <<OrderAt(1, 1, 1), OrderAt(2, 1, 2), OrderAt(3, 2, 1)>>

\* requests of every operation: rows found and not found, a customer_id
\* SQLite cannot store, a page that is not a number
StoreTargets ==
    {Target("customers", <<>>, "", TRUE, Query(Decimal(1), Decimal(1), Absent)),
     Target("customers", <<>>, "", TRUE, Query(Garbage, Absent, Absent)),
     Target("customers", Decimal(1), "", FALSE, NoParams),
     Target("customers", Decimal(3), "", FALSE, NoParams),
     Target("customers", TooBig, "", FALSE, NoParams),
     Target("customers", Decimal(1), "orders", FALSE, NoParams),
     Target("customers", Decimal(3), "orders", FALSE, NoParams),
     Target("statistics", <<>>, "", FALSE, NoParams),
     Target("health", <<>>, "", FALSE, NoParams)}

\* one request at a time against a store that may fail
InitFault ==
    /\ users = HandlerUsers
    /\ orders \in {<<>>, HandlerOrders}
    /\ request = NoRequest
    /\ response = NoResponse
    /\ pager = NoPager
    /\ handlers = <<IdleHandler>>
    /\ cursors = <<Exhausted>>
    /\ files = NoFiles

NextFault ==
    \/ \E server \in {"flask", "simple"}, t \in StoreTargets, f \in Faults \cup {NoFault} :
          Receive(1, server, t, f)
    \/ Connect(1)
    \/ Execute(1)
    \/ Fetch(1)
    \/ Respond(1)
    \/ Release(1)

SpecFault == InitFault /\ [][NextFault]_vars

\* requests that read the same rows in different ways
ConcurrentTargets ==
    {Target("customers", <<>>, "", TRUE, Query(Decimal(2), Decimal(1), Absent)),
     Target("customers", Decimal(1), "", FALSE, NoParams),
     Target("customers", Decimal(2), "", FALSE, NoParams),
     Target("customers", Decimal(3), "", FALSE, NoParams),
     Target("customers", Decimal(1), "orders", TRUE, Query(Decimal(2), Decimal(1), Absent))}

\* the requests the two servers are sent while others are in progress
ConcurrentRequests ==
    {<<"flask", t>> : t \in ConcurrentTargets}
    \cup {<<"simple", Target("customers", Decimal(2), "orders", FALSE, NoParams)>>}

\* up to MaxRequests requests in progress against a working store
InitConcurrent ==
    /\ users = HandlerUsers
    /\ orders = HandlerOrders
    /\ request = NoRequest
    /\ response = NoResponse
    /\ pager = NoPager
    /\ handlers = [s \in 1..MaxRequests |-> IdleHandler]
    /\ cursors = [s \in 1..MaxRequests |-> Exhausted]
    /\ files = NoFiles

NextConcurrent ==
    \/ \E slot \in 1..MaxRequests, r \in ConcurrentRequests :
          Receive(slot, r[1], r[2], NoFault)
    \/ \E slot \in 1..MaxRequests : Connect(slot)
    \/ \E slot \in 1..MaxRequests : Execute(slot)
    \/ \E slot \in 1..MaxRequests : Fetch(slot)
    \/ \E slot \in 1..MaxRequests : Respond(slot)
    \/ \E slot \in 1..MaxRequests : Release(slot)

SpecConcurrent == InitConcurrent /\ [][NextConcurrent]_vars

\* C22: when the store raises an error during any of the four operations
\* (the database cannot be opened, a table is missing, a query fails), the
\* request is answered with exactly one response, of status 500 and body
\* {success: false, error: "Internal server error", message}, by both servers.
C22_StoreErrorIs500 ==
    \A slot \in DOMAIN handlers :
        LET h == handlers[slot]
        IN  (h.pc = "returned" /\ h.raised = h.fault.text /\ h.fault # NoFault)
            => /\ Len(h.sent) = 1
               /\ h.sent[1].status = 500
               /\ h.sent[1].body.success = FALSE
               /\ h.sent[1].body.error = "Internal server error"
               /\ DOMAIN h.sent[1].body = {"success", "error", "message"}

\* the third statement of the stdlib server's orders handler failed
C22_Witness ==
    /\ handlers[1].pc = "returned"
    /\ handlers[1].server = "simple"
    /\ handlers[1].fault = [at |-> 3, text |-> "no such table: orders"]
    /\ handlers[1].raised = "no such table: orders"
    /\ Alone(handlers[1].server, handlers[1].target).op = "get_customer_orders"
    /\ handlers[1].sent[1].status = 500

\* C23: the message of a 500 response is generic: it is the same whatever
\* the exception was, and the text of the exception does not reach the caller.
C23_NoExceptionTextInResponse ==
    \A slot \in DOMAIN handlers :
        LET h == handlers[slot]
        IN  (h.pc = "returned" /\ h.raised # "")
            => \A i \in 1..Len(h.sent) :
                  h.sent[i].status = 500 => h.sent[i].body.message # h.raised

\* C24: whatever other requests are in progress and however their store
\* calls interleave, every request receives the response it would receive
\* alone on the same dataset.
C24_ResponseAsIfAlone ==
    \A slot \in DOMAIN handlers :
        handlers[slot].pc = "returned"
        => handlers[slot].sent = <<Alone(handlers[slot].server, handlers[slot].target)>>

\* slot 2 started and finished its statements while slot 1 was between an
\* execute and its fetch
C24_Witness ==
    /\ DOMAIN handlers = 1..MaxRequests
    /\ handlers[1].pc = "returned"
    /\ handlers[1].sent[1].status = 200
    /\ handlers[2].pc = "fetch"
    /\ handlers[2].k = 2
    /\ handlers[1].target # handlers[2].target

\* C25: every store connection a handler opens is closed before the handler
\* returns, on every exit path: success, NotFound, and an exception raised by
\* any query.
C25_ConnectionClosedOnReturn ==
    \A slot \in DOMAIN handlers :
        handlers[slot].pc = "returned" => handlers[slot].conn # "open"

(* ------------------- src/database_setup.py (the loader) ------------------ *)

\* files.users_csv and files.orders_csv are the two CSV files of csv_dir:
\* whether the file exists and its rows after the header, every field the
\* text csv.DictReader gives.

MaxCsvRows == 2

\* INSERT OR REPLACE: a later row with the same key takes the place of the
\* earlier one
InsertOrReplace(table, row, key) ==
    Append(SelectSeq(table, LAMBDA r : r[key] # row[key]), row)

\* cursor.execute('INSERT ...') inside try / except sqlite3.IntegrityError:
\* continue -- a row whose primary key is already in the table is skipped
InsertOrSkip(table, row, key) ==
    IF \E i \in 1..Len(table) : table[i][key] = row[key]
    THEN table
    ELSE Append(table, row)

\* the values bound for one row of users.csv
UsersValues(row) ==
    UserRow(ParseInt(row.id).n, row.first_name, row.last_name, row.email,
            row.country, row.created_at)

\* the values bound for one row of orders.csv; int(row['num_of_item']) if
\* row['num_of_item'] else 1
OrdersValues(row) ==
    OrderRow(ParseInt(row.order_id).n, ParseInt(row.user_id).n, row.status,
             IF row.num_of_item # <<>> THEN ParseInt(row.num_of_item).n ELSE 1,
             row.created_at)

\* int() raises ValueError on a field of some row of users.csv
UsersRaise(rows) == \E i \in 1..Len(rows) : ~ParseInt(rows[i].id).ok

\* int() raises ValueError on a field of some row of orders.csv
OrdersRaise(rows) ==
    \E i \in 1..Len(rows) :
        \/ ~ParseInt(rows[i].order_id).ok
        \/ ~ParseInt(rows[i].user_id).ok
        \/ (rows[i].num_of_item # <<>> /\ ~ParseInt(rows[i].num_of_item).ok)

RECURSIVE InsertUsers(_, _)
\* for row in csv_reader: INSERT INTO users
InsertUsers(table, rows) ==
    IF rows = <<>> THEN table
    ELSE InsertUsers(InsertOrSkip(table, UsersValues(Head(rows)), "id"), Tail(rows))

RECURSIVE InsertOrders(_, _)
\* for row in csv_reader: INSERT INTO orders
InsertOrders(table, rows) ==
    IF rows = <<>> THEN table
    ELSE InsertOrders(InsertOrSkip(table, OrdersValues(Head(rows)), "order_id"), Tail(rows))

\* what load_csv_data gave back: True, False, or the exception that left it
Returned(value) == [op |-> "load_csv_data", status |-> 0, returned |-> value]

\* load_csv_data(conn), run by main().  Each table is emptied and filled in
\* one transaction, committed after the file's last row; a ValueError leaves
\* the function before the commit and the transaction is rolled back when the
\* process ends.
load_csv_data ==
    /\ IF ~files.users_csv.exists
       THEN /\ response' = Returned("False")
            /\ UNCHANGED <<users, orders>>
       ELSE IF UsersRaise(files.users_csv.rows)
       THEN /\ response' = Returned("ValueError")
            /\ UNCHANGED <<users, orders>>
       ELSE /\ users' = InsertUsers(<<>>, files.users_csv.rows)
            /\ IF ~files.orders_csv.exists
               THEN /\ response' = Returned("False")
                    /\ UNCHANGED orders
               ELSE IF OrdersRaise(files.orders_csv.rows)
               THEN /\ response' = Returned("ValueError")
                    /\ UNCHANGED orders
               ELSE /\ response' = Returned("True")
                    /\ orders' = InsertOrders(<<>>, files.orders_csv.rows)
    /\ UNCHANGED <<request, pager, handlers, cursors, files>>

\* a row of users.csv: the same id may come with two first names
CsvUser(id, first_name) ==
    [id |-> Decimal(id), first_name |-> first_name, last_name |-> LastNameOf(id),
     email |-> EmailOf(id), country |-> CountryOf(id), created_at |-> 1]

\* a row of orders.csv: num_of_item is a number or left empty
CsvOrder(order_id, user_id, num_of_item) ==
    [order_id |-> Decimal(order_id), user_id |-> user_id,
     status |-> StatusOf(order_id), num_of_item |-> num_of_item, created_at |-> 1]

CsvUserRows ==
    {CsvUser(id, n) : id \in 1..2, n \in {<<"A", "l">>, <<"B", "o">>}}

\* the last row has an empty user_id, on which int() raises
CsvOrderRows ==
    {CsvOrder(o, Decimal(1), n) : o \in 1..2, n \in {<<>>, Decimal(3)}}
    \cup {CsvOrder(1, <<>>, Decimal(2))}

\* every sequence of at most n elements of S
SeqsUpTo(S, n) == UNION {[1..m -> S] : m \in 0..n}

\* a file that is not there, or one with up to MaxCsvRows rows
CsvFiles(S) ==
    {[exists |-> FALSE, rows |-> <<>>]}
    \cup {[exists |-> TRUE, rows |-> r] : r \in SeqsUpTo(S, MaxCsvRows)}

\* the tables before the load: empty after create_database, or holding the
\* rows of an earlier load
InitLoader ==
    /\ users \in {<<>>, <<UserAt(1, 2), UserAt(3, 1)>>}
    /\ orders \in {<<>>, <<OrderAt(1, 3, 1), OrderAt(3, 3, 1)>>}
    /\ files \in [users_csv : CsvFiles(CsvUserRows), orders_csv : CsvFiles(CsvOrderRows)]
    /\ request = NoRequest
    /\ response = NoResponse
    /\ pager = NoPager
    /\ handlers = NoHandlers
    /\ cursors = NoCursors

NextLoader == load_csv_data

SpecLoader == InitLoader /\ [][NextLoader]_vars

\* the first row of a CSV file whose key column reads as the integer id
FirstWithKey(rows, column, id) ==
    rows[CHOOSE i \in 1..Len(rows) :
            /\ ParseInt(rows[i][column]).n = id
            /\ \A j \in 1..(i - 1) : ParseInt(rows[j][column]).n # id]

Loaded == response.op = "load_csv_data" /\ response.returned = "True"

\* C30 (state part): after load_csv_data has returned True the users table
\* holds exactly one row per distinct id of users.csv and the orders table
\* one row per distinct order_id of orders.csv, each the first row of the
\* file with that key, rows present before the load are gone, and an absent
\* num_of_item is stored as 1.
C30_TablesHoldTheFiles ==
    Loaded
    => LET us == files.users_csv.rows
           os == files.orders_csv.rows
           ids == {ParseInt(us[i].id).n : i \in 1..Len(us)}
           oids == {ParseInt(os[i].order_id).n : i \in 1..Len(os)}
       IN  /\ {u.id : u \in Range(users)} = ids
           /\ Len(users) = Cardinality(ids)
           /\ \A u \in Range(users) :
                 LET r == FirstWithKey(us, "id", u.id)
                 IN  /\ u.first_name = r.first_name
                     /\ u.last_name = r.last_name
                     /\ u.email = r.email
                     /\ u.country = r.country
                     /\ u.created_at = r.created_at
           /\ {o.order_id : o \in Range(orders)} = oids
           /\ Len(orders) = Cardinality(oids)
           /\ \A o \in Range(orders) :
                 LET r == FirstWithKey(os, "order_id", o.order_id)
                 IN  /\ o.user_id = ParseInt(r.user_id).n
                     /\ o.status = r.status
                     /\ o.created_at = r.created_at
                     /\ o.num_of_item = IF r.num_of_item = <<>> THEN 1
                                        ELSE ParseInt(r.num_of_item).n

====
